---- MODULE Spec2Model ----
(***************************************************************************)
(* EspKeyboard: an 8 x 9 key matrix scanned through a 74HC595 shift        *)
(* register (sketch.ino).  The model follows setup() and loop() statement  *)
(* by statement: the driver calls are split into their latch and per-bit   *)
(* steps, every digitalRead is one step, and the report is printed line by *)
(* line.  The keys and the millisecond clock are the environment.          *)
(***************************************************************************)
EXTENDS Integers, Sequences, FiniteSets, TLC

(* ------------------------------------------------------------------ *)
(* Program constants                                                  *)
(* ------------------------------------------------------------------ *)
NumCols == 8
NumRows == 9
ByteBits == 8
printInterval == 1000
ClearPattern == 0

(* ------------------------------------------------------------------ *)
(* Bounds of the model                                                *)
(* ------------------------------------------------------------------ *)
\* the clock advances in steps of TickStep and stops at MaxTime
TickStep == 500
MaxTime == 2000
\* width of the modelled millisecond counter (unsigned long, scaled down)
ClockBits == 12

Cols == 0 .. (NumCols - 1)
Rows == 0 .. (NumRows - 1)
Modulus == 2 ^ ClockBits
ByteRange == 2 ^ ByteBits

\* clearAllColumns calls in succession in the driver's own specification
MaxClears == 3

\* the clock step, as a power of two, where the counter is let wrap around
WrapStepBits == 9

\* the contacts the environment may close
KeyPool == { <<0, 0>>, <<3, 5>>, <<7, 8>> }
\* what the latched outputs and the shift stages may hold at power-on
PowerOnBytes == { 0, 255 }

VARIABLES
  pc,             \* position in setup() / loop()
  col, row,       \* the loop indices (scan loops and print loops)
  matrix,         \* int matrix[8][9]
  lastPrintTime,  \* unsigned long lastPrintTime
  latch,          \* level of latchpin (RCLK)
  shiftReg,       \* the 8 shift stages of the 74HC595
  outputs,        \* the 8 latched parallel outputs (bit c drives column c)
  bitIdx,         \* shiftOut's loop index
  drvVal,         \* the byte handed to shiftOut
  callee,         \* the driver function being executed
  drvRet,         \* where the driver call returns to
  out,            \* the lines of the report being printed / last printed
  keys,           \* environment: the closed contacts
  now,            \* environment: millis()
  stable,         \* history: keys unchanged since the current sweep began
  seen,           \* history: contacts found closed when sampled in this sweep
  nSamples,       \* history: digitalRead calls made in this sweep
  lastSample,     \* history: the (col,row) of the latest digitalRead
  nClears,        \* history: clearAllColumns calls made in this sweep
  calls,          \* history: the two latest driver calls
  swept,          \* history: a sweep has completed
  emits,          \* history: the clock values stamped at the two latest reports
  age,            \* history: the time that has really passed since the stamp
  gateSaw,        \* history: that time when the gate was last evaluated
  nSettles        \* history: settle delays made in this sweep

vars == << pc, col, row, matrix, lastPrintTime, latch, shiftReg, outputs,
           bitIdx, drvVal, callee, drvRet, out, keys, now, stable, seen,
           nSamples, lastSample, nClears, calls, swept, emits, age,
           gateSaw, nSettles >>

progVars == << pc, col, row, matrix, lastPrintTime, latch, shiftReg, outputs,
               bitIdx, drvVal, callee, drvRet, out >>
histVars == << seen, nSamples, lastSample, nClears, calls, swept, emits >>

(* ------------------------------------------------------------------ *)
(* Pure helpers                                                       *)
(* ------------------------------------------------------------------ *)
Bit(v, i) == (v \div (2 ^ i)) % 2

RECURSIVE PopCount(_)
PopCount(v) == IF v = 0 THEN 0 ELSE (v % 2) + PopCount(v \div 2)

\* mutants of columnSignals: column 0 also drives bit 7; every pattern one
\* place too high
columnSignalsTwoHot(c) == << 129, 2, 4, 8, 16, 32, 64, 128 >>[c + 1]
columnSignalsOffByOne(c) == (2 ^ (c + 1)) % ByteRange

\* const uint8_t columnSignals[8]
columnSignals(c) == << 1, 2, 4, 8, 16, 32, 64, 128 >>[c + 1]

\* mutant of ShiftOutBit: MSBFIRST
ShiftOutBitMSB(val, i) == Bit(val, ByteBits - 1 - i)

\* shiftOut(..., LSBFIRST, val): the bit put on the data pin in iteration i
ShiftOutBit(val, i) == Bit(val, i)

\* one SRCLK pulse: every stage moves one place, the data bit enters.
\* Stage numbering follows the byte: the stage that ends up holding bit c
\* of an LSB-first transmission is stage c (it drives column c).
ClockIn(reg, b) == (reg \div 2) + b * (2 ^ (ByteBits - 1))

\* mutant of digitalRead: rows configured INPUT_PULLUP, an idle row reads 1
digitalReadPullUp(r) == 1

\* digitalRead(rowPins[r]) on a diode-isolated matrix with pull-downs: the
\* row is high iff a closed contact joins it to a column that is driven high
digitalRead(r) ==
  IF \E c \in Cols : Bit(outputs, c) = 1 /\ <<c, r>> \in keys THEN 1 ELSE 0

\* mutant of StoreSample: every row of the column is set to v
StoreSampleWholeColumn(m, c, r, v) == [m EXCEPT ![c] = [x \in Rows |-> v]]

\* mutant of StoreSample: matrix[col][row] |= v
StoreSampleLatch(m, c, r, v) ==
  [m EXCEPT ![c][r] = IF m[c][r] = 1 \/ v = 1 THEN 1 ELSE 0]

\* matrix[col][row] = v
StoreSample(m, c, r, v) == [m EXCEPT ![c][r] = v]

\* mutant of Elapsed: the difference is taken in signed arithmetic
ElapsedSigned(t, last) == t - last

\* millis() - lastPrintTime in unsigned arithmetic
Elapsed(t, last) == (t - last) % Modulus

\* mutant of GateOpen: millis() >= printInterval
GateOpenNoSubtract(t, last) == t >= printInterval

\* millis() - lastPrintTime >= printInterval
GateOpen(t, last) == Elapsed(t, last) >= printInterval

\* mutant of RowInRange: row < 8
RowInRangeShort(r) == r < NumRows - 1

\* for (...; col < 8; ...) and for (...; row < 9; ...)
ColInRange(c) == c < NumCols
RowInRange(r) == r < NumRows

\* mutant of ClearByte: 0b00000001
ClearByteColumn0 == columnSignals(0)

\* mutant of ClearByte: 0b11111111
ClearByteAllOn == ByteRange - 1

\* the byte clearAllColumns hands to shiftOut
ClearByte == ClearPattern

ZeroMatrix == [c \in Cols |-> [r \in Rows |-> 0]]
Indicator(K) == [c \in Cols |-> [r \in Rows |-> IF <<c, r>> \in K THEN 1 ELSE 0]]

(* ------------------------------------------------------------------ *)
(* Initial state: power-on, before setup()                            *)
(* ------------------------------------------------------------------ *)
Init ==
  /\ pc = "setup"
  /\ col = 0 /\ row = 0
  /\ matrix = ZeroMatrix
  /\ lastPrintTime = 0
  /\ latch \in {0, 1}
  /\ shiftReg \in PowerOnBytes
  /\ outputs \in PowerOnBytes
  /\ bitIdx = 0
  /\ drvVal = 0
  /\ callee = "none"
  /\ drvRet = "none"
  /\ out = << >>
  /\ keys = {}
  /\ now = 0
  /\ stable = TRUE
  /\ seen = {}
  /\ nSamples = 0
  /\ lastSample = << >>
  /\ nClears = 0
  /\ calls = << >>
  /\ swept = FALSE
  /\ emits = << >>
  /\ age = 0
  /\ gateSaw = 0
  /\ nSettles = 0

(* ------------------------------------------------------------------ *)
(* The shift-register driver: activateColumn and clearAllColumns      *)
(* ------------------------------------------------------------------ *)
Push(h, e) == IF Len(h) < 2 THEN Append(h, e) ELSE << h[2], e >>

\* entering a driver function with the byte it will transmit
Call(fn, val, ret) ==
  /\ pc' = "latchLow"
  /\ callee' = fn
  /\ drvVal' = val
  /\ drvRet' = ret
  /\ calls' = Push(calls, << fn, val >>)

\* digitalWrite(latchpin, LOW)
LatchLow ==
  /\ pc = "latchLow"
  /\ latch' = 0
  /\ bitIdx' = 0
  /\ pc' = "shift"
  /\ UNCHANGED << col, row, matrix, lastPrintTime, shiftReg, outputs, drvVal,
                  callee, drvRet, out, keys, now, stable >>
  /\ UNCHANGED histVars
  /\ UNCHANGED << age, gateSaw, nSettles >>

\* one iteration of shiftOut: data pin, clock high, clock low
ShiftBit ==
  /\ pc = "shift"
  /\ shiftReg' = ClockIn(shiftReg, ShiftOutBit(drvVal, bitIdx))
  /\ bitIdx' = bitIdx + 1
  /\ pc' = IF bitIdx + 1 < ByteBits THEN "shift" ELSE "latchHigh"
  /\ UNCHANGED << col, row, matrix, lastPrintTime, latch, outputs, drvVal,
                  callee, drvRet, out, keys, now, stable >>
  /\ UNCHANGED histVars
  /\ UNCHANGED << age, gateSaw, nSettles >>

\* digitalWrite(latchpin, HIGH): a rising edge copies the stages to the
\* outputs; the function returns
LatchHigh ==
  /\ pc = "latchHigh"
  /\ latch' = 1
  /\ outputs' = IF latch = 0 THEN shiftReg ELSE outputs
  /\ pc' = drvRet
  /\ callee' = "none"
  /\ swept' = (swept \/ drvRet = "gate")
  /\ UNCHANGED << col, row, matrix, lastPrintTime, shiftReg, bitIdx, drvVal,
                  drvRet, out, keys, now, stable >>
  /\ UNCHANGED << seen, nSamples, lastSample, nClears, calls, emits >>
  /\ UNCHANGED << age, gateSaw, nSettles >>

(* ------------------------------------------------------------------ *)
(* setup()                                                            *)
(* ------------------------------------------------------------------ *)
\* Serial.begin, the pinMode calls, then clearAllColumns()
Setup ==
  /\ pc = "setup"
  /\ Call("clearAllColumns", ClearByte, "loopTop")
  /\ UNCHANGED << col, row, matrix, lastPrintTime, latch, shiftReg, outputs,
                  bitIdx, out, keys, now, stable >>
  /\ UNCHANGED << seen, nSamples, lastSample, nClears, swept, emits >>
  /\ UNCHANGED << age, gateSaw, nSettles >>

(* ------------------------------------------------------------------ *)
(* loop(): the sweep                                                  *)
(* ------------------------------------------------------------------ *)
\* entry of loop(): for (int col = 0; col < 8; ...)
ScanStart ==
  /\ pc = "loopTop"
  /\ col' = 0
  /\ pc' = IF ColInRange(0) THEN "activate" ELSE "clearCall"
  /\ out' = << >>
  /\ stable' = TRUE
  /\ seen' = {}
  /\ nSamples' = 0
  /\ nClears' = 0
  /\ UNCHANGED << row, matrix, lastPrintTime, latch, shiftReg, outputs,
                  bitIdx, drvVal, callee, drvRet, keys, now >>
  /\ UNCHANGED << lastSample, calls, swept, emits >>
  /\ gateSaw' = 0
  /\ nSettles' = 0
  /\ UNCHANGED age

\* mutant of AfterActivate: the delayMicroseconds(30) call is missing
AfterActivateNoSettle == "sample"

\* where loop() continues when activateColumn returns: the settle delay
AfterActivate == "settle"

\* activateColumn(columnSignals[col])
Activate ==
  /\ pc = "activate"
  /\ Call("activateColumn", columnSignals(col), AfterActivate)
  /\ UNCHANGED << col, row, matrix, lastPrintTime, latch, shiftReg, outputs,
                  bitIdx, out, keys, now, stable >>
  /\ UNCHANGED << seen, nSamples, lastSample, nClears, swept, emits >>
  /\ UNCHANGED << age, gateSaw, nSettles >>

\* mutant of AfterColumn: the sweep is abandoned after the last column
AfterColumnAbort(c) == IF ColInRange(c + 1) THEN "activate" ELSE "aborted"

\* mutant of AfterColumn: loop() omits the clearAllColumns call
AfterColumnNoClear(c) == IF ColInRange(c + 1) THEN "activate" ELSE "gate"

\* where the column loop goes after the body for column c
AfterColumn(c) == IF ColInRange(c + 1) THEN "activate" ELSE "clearCall"

\* delayMicroseconds(30); for (int row = 0; row < 9; ...)
Settle ==
  /\ pc = "settle"
  /\ row' = 0
  /\ IF RowInRange(0)
       THEN pc' = "sample" /\ col' = col
       ELSE pc' = AfterColumn(col) /\ col' = col + 1
  /\ UNCHANGED << matrix, lastPrintTime, latch, shiftReg, outputs, bitIdx,
                  drvVal, callee, drvRet, out, keys, now, stable >>
  /\ UNCHANGED histVars
  /\ nSettles' = nSettles + 1
  /\ UNCHANGED << age, gateSaw >>

\* matrix[col][row] = digitalRead(rowPins[row]); row++
Sample ==
  /\ pc = "sample"
  /\ matrix' = StoreSample(matrix, col, row, digitalRead(row))
  /\ seen' = IF <<col, row>> \in keys THEN seen \cup { <<col, row>> } ELSE seen
  /\ nSamples' = nSamples + 1
  /\ lastSample' = << col, row >>
  /\ row' = row + 1
  /\ IF RowInRange(row + 1)
       THEN pc' = "sample" /\ col' = col
       ELSE pc' = AfterColumn(col) /\ col' = col + 1
  /\ UNCHANGED << lastPrintTime, latch, shiftReg, outputs, bitIdx, drvVal,
                  callee, drvRet, out, keys, now, stable >>
  /\ UNCHANGED << nClears, calls, swept, emits >>
  /\ UNCHANGED << age, gateSaw, nSettles >>

\* clearAllColumns() after the column loop
ClearCall ==
  /\ pc = "clearCall"
  /\ nClears' = nClears + 1
  /\ Call("clearAllColumns", ClearByte, "gate")
  /\ UNCHANGED << col, row, matrix, lastPrintTime, latch, shiftReg, outputs,
                  bitIdx, out, keys, now, stable >>
  /\ UNCHANGED << seen, nSamples, lastSample, swept, emits >>
  /\ UNCHANGED << age, gateSaw, nSettles >>

(* ------------------------------------------------------------------ *)
(* loop(): the report                                                 *)
(* ------------------------------------------------------------------ *)
\* if (millis() - lastPrintTime >= printInterval)
Gate ==
  /\ pc = "gate"
  /\ pc' = IF GateOpen(now, lastPrintTime) THEN "stamp" ELSE "loopTop"
  /\ UNCHANGED << col, row, matrix, lastPrintTime, latch, shiftReg, outputs,
                  bitIdx, drvVal, callee, drvRet, out, keys, now, stable >>
  /\ UNCHANGED histVars
  /\ gateSaw' = age
  /\ UNCHANGED << age, nSettles >>

\* lastPrintTime = millis()
Stamp ==
  /\ pc = "stamp"
  /\ lastPrintTime' = now
  /\ emits' = Push(emits, now)
  /\ pc' = "printTitle"
  /\ UNCHANGED << col, row, matrix, latch, shiftReg, outputs, bitIdx, drvVal,
                  callee, drvRet, out, keys, now, stable >>
  /\ UNCHANGED << seen, nSamples, lastSample, nClears, calls, swept >>
  /\ age' = 0
  /\ UNCHANGED << gateSaw, nSettles >>

\* Serial.println("Matrix (Rows Vertically, Cols Horizontally):")
PrintTitle ==
  /\ pc = "printTitle"
  /\ out' = Append(out, << "title" >>)
  /\ pc' = "printHeader"
  /\ UNCHANGED << col, row, matrix, lastPrintTime, latch, shiftReg, outputs,
                  bitIdx, drvVal, callee, drvRet, keys, now, stable >>
  /\ UNCHANGED histVars
  /\ UNCHANGED << age, gateSaw, nSettles >>

\* the column header line: "C0 C1 ... C7"; then for (int row = 0; ...)
PrintHeader ==
  /\ pc = "printHeader"
  /\ out' = Append(out, << "header", [i \in 1 .. NumCols |-> i - 1] >>)
  /\ row' = 0
  /\ pc' = IF RowInRange(0) THEN "printRow" ELSE "printSep"
  /\ UNCHANGED << col, matrix, lastPrintTime, latch, shiftReg, outputs,
                  bitIdx, drvVal, callee, drvRet, keys, now, stable >>
  /\ UNCHANGED histVars
  /\ UNCHANGED << age, gateSaw, nSettles >>

\* mutant of RowValues: the inner loop runs from column 7 down to 0
RowValuesReversed(r) == [i \in 1 .. NumCols |-> matrix[NumCols - i][r]]

\* mutant of RowValues: prints matrix[row][col]
RowValuesTransposed(r) ==
  [i \in 1 .. NumCols |-> IF r \in Cols /\ (i - 1) \in Rows THEN matrix[r][i - 1] ELSE 0]

\* the values printed on the line of row r: matrix[0][r] .. matrix[7][r]
RowValues(r) == [i \in 1 .. NumCols |-> matrix[i - 1][r]]

\* one line "R<row>:" with the 8 values of that row; row++
PrintRow ==
  /\ pc = "printRow"
  /\ out' = Append(out, << "row", row, RowValues(row) >>)
  /\ row' = row + 1
  /\ pc' = IF RowInRange(row + 1) THEN "printRow" ELSE "printSep"
  /\ UNCHANGED << col, matrix, lastPrintTime, latch, shiftReg, outputs,
                  bitIdx, drvVal, callee, drvRet, keys, now, stable >>
  /\ UNCHANGED histVars
  /\ UNCHANGED << age, gateSaw, nSettles >>

\* Serial.println("------------------------"); loop() returns
PrintSep ==
  /\ pc = "printSep"
  /\ out' = Append(out, << "sep" >>)
  /\ pc' = "loopTop"
  /\ UNCHANGED << col, row, matrix, lastPrintTime, latch, shiftReg, outputs,
                  bitIdx, drvVal, callee, drvRet, keys, now, stable >>
  /\ UNCHANGED histVars
  /\ UNCHANGED << age, gateSaw, nSettles >>

(* ------------------------------------------------------------------ *)
(* Environment                                                        *)
(* ------------------------------------------------------------------ *)
\* the millisecond clock advances
Tick ==
  /\ now + TickStep <= MaxTime
  /\ now' = (now + TickStep) % Modulus
  /\ UNCHANGED progVars
  /\ UNCHANGED << keys, stable >>
  /\ UNCHANGED histVars
  /\ age' = age + TickStep
  /\ UNCHANGED << gateSaw, nSettles >>

\* a contact closes or opens
KeyChange ==
  /\ \E k \in KeyPool :
       keys' = IF k \in keys THEN keys \ {k} ELSE keys \cup {k}
  /\ stable' = FALSE
  /\ UNCHANGED progVars
  /\ UNCHANGED now
  /\ UNCHANGED histVars
  /\ UNCHANGED << age, gateSaw, nSettles >>

Next ==
  \/ Setup
  \/ LatchLow
  \/ ShiftBit
  \/ LatchHigh
  \/ ScanStart
  \/ Activate
  \/ Settle
  \/ Sample
  \/ ClearCall
  \/ Gate
  \/ Stamp
  \/ PrintTitle
  \/ PrintHeader
  \/ PrintRow
  \/ PrintSep
  \/ Tick
  \/ KeyChange

Spec == Init /\ [][Next]_vars

\* the steps of the program: the processor executes setup() and then loop()
\* again and again, and never stops between two statements
ProgNext ==
  \/ Setup
  \/ LatchLow
  \/ ShiftBit
  \/ LatchHigh
  \/ ScanStart
  \/ Activate
  \/ Settle
  \/ Sample
  \/ ClearCall
  \/ Gate
  \/ Stamp
  \/ PrintTitle
  \/ PrintHeader
  \/ PrintRow
  \/ PrintSep

FairSpec == Spec /\ WF_vars(ProgNext)

TypeOK ==
  /\ col \in 0 .. NumCols /\ row \in 0 .. NumRows
  /\ matrix \in [Cols -> [Rows -> {0, 1}]]
  /\ shiftReg \in 0 .. (ByteRange - 1) /\ outputs \in 0 .. (ByteRange - 1)
  /\ now \in 0 .. (Modulus - 1) /\ lastPrintTime \in 0 .. (Modulus - 1)
  /\ keys \subseteq KeyPool

(* ------------------------------------------------------------------ *)
(* Positions                                                          *)
(* ------------------------------------------------------------------ *)
DriverPcs == { "latchLow", "shift", "latchHigh" }
ReportPcs == { "printTitle", "printHeader", "printRow", "printSep" }

\* a sweep is in progress: from the entry of the column loop until the
\* clearAllColumns that follows it has returned
InSweep ==
  \/ pc \in { "activate", "settle", "sample", "clearCall" }
  \/ pc \in DriverPcs /\ callee = "activateColumn"
  \/ pc \in DriverPcs /\ drvRet = "gate"

\* a sweep has completed and the next one has not begun
SweepDone == swept /\ pc \in ({ "gate", "stamp", "loopTop" } \cup ReportPcs)

(* ------------------------------------------------------------------ *)
(* C1: with the closed contacts K fixed during a sweep, after the     *)
(* sweep matrix[c][r] = 1 exactly when (c,r) is in K: no entry is     *)
(* missed and no ghost entry appears.                                 *)
(* ------------------------------------------------------------------ *)
C1_SnapshotEqualsContacts ==
  (SweepDone /\ stable) => matrix = Indicator(keys)

C1_Witness ==
  /\ pc = "gate" /\ swept /\ stable
  /\ keys = { <<0, 0>>, <<7, 8>> }
  /\ matrix[0][0] = 1 /\ matrix[7][8] = 1 /\ matrix[0][8] = 0 /\ matrix[7][0] = 0

(* ------------------------------------------------------------------ *)
(* C2: with no key pressed during a sweep, the first or a later one,  *)
(* all 72 entries are 0 after it.                                     *)
(* ------------------------------------------------------------------ *)
C2_NoKeysAllZero ==
  (SweepDone /\ stable /\ keys = {}) =>
     \A c \in 0 .. 7 : \A r \in 0 .. 8 : matrix[c][r] = 0

\* a sweep with no key pressed that follows a sweep which saw one
C2_Witness ==
  /\ pc = "gate" /\ swept /\ stable /\ keys = {}
  /\ Len(emits) >= 1
  /\ matrix = ZeroMatrix

(* ------------------------------------------------------------------ *)
(* C3: whenever a row is about to be sampled, exactly one column      *)
(* output is high and it is the column the sample is stored under.    *)
(* ------------------------------------------------------------------ *)
C3_OneColumnWhileSampling ==
  pc = "sample" =>
     /\ PopCount(outputs) <= 1
     /\ Bit(outputs, col) = 1
     /\ \A c \in 0 .. 7 : c # col => Bit(outputs, c) = 0

C3_Witness ==
  pc = "sample" /\ col = 5 /\ row = 4 /\ outputs = 32 /\ swept

(* ------------------------------------------------------------------ *)
(* C4: the byte handed to activateColumn for column c is 2^c: one bit *)
(* set, bit c.                                                        *)
(* ------------------------------------------------------------------ *)
C4_PatternOneHot ==
  callee = "activateColumn" =>
     /\ col \in 0 .. 7
     /\ drvVal = 2 ^ col
     /\ PopCount(drvVal) = 1

C4_Witness ==
  callee = "activateColumn" /\ col = 7 /\ drvVal = 128 /\ swept

(* ------------------------------------------------------------------ *)
(* C5: a sweep samples the 72 pairs once each in column-major order   *)
(* and every sweep starts at column 0.                                *)
(* ------------------------------------------------------------------ *)
C5_ColumnMajorCoverage ==
  /\ pc = "sample" => (col \in 0 .. 7 /\ row \in 0 .. 8 /\ nSamples = 9 * col + row)
  /\ (InSweep /\ nSamples >= 1) =>
        lastSample = << (nSamples - 1) \div 9, (nSamples - 1) % 9 >>
  /\ (InSweep /\ nSamples = 0) => col = 0
  /\ (pc = "clearCall" \/ SweepDone) => (nSamples = 72 /\ lastSample = << 7, 8 >>)

\* a second sweep, begun after a report, is half way
C5_Witness ==
  /\ pc = "sample" /\ col = 4 /\ row = 0 /\ nSamples = 36
  /\ lastSample = << 3, 8 >>
  /\ Len(emits) >= 1

(* ------------------------------------------------------------------ *)
(* C6: the report is printed between sweeps: a sweep has completed    *)
(* (72 samples stored, columns cleared), none is in progress, and     *)
(* every value printed is the one sampled in that latest sweep.       *)
(* ------------------------------------------------------------------ *)
PrintedFromSweep(line) ==
  line[1] = "row" =>
     \A i \in 1 .. Len(line[3]) :
        line[3][i] = IF << i - 1, line[2] >> \in seen THEN 1 ELSE 0

C6_ReportBetweenSweeps ==
  /\ (pc \in ReportPcs \/ out # << >>) =>
        /\ swept /\ ~InSweep
        /\ nSamples = 72 /\ nClears = 1
        /\ outputs = 0 /\ latch = 1
        /\ \A j \in 1 .. Len(out) : PrintedFromSweep(out[j])
  /\ emits # << >> => swept

\* a full report whose row 5 shows the key (3,5) that the sweep saw,
\* although the key has been released since
C6_Witness ==
  /\ pc = "printSep" /\ Len(out) = 11
  /\ seen = { <<3, 5>> } /\ keys = {}
  /\ out[8][2] = 5 /\ out[8][3][4] = 1 /\ out[8][3][5] = 0

(* ------------------------------------------------------------------ *)
(* C7: with a monotonic clock a report is stamped only when at least  *)
(* 1000 have elapsed since lastPrintTime: none before the clock       *)
(* reaches 1000, and consecutive stamps are at least 1000 apart.      *)
(* ------------------------------------------------------------------ *)
C7_ReportCadence ==
  /\ pc = "stamp" => now - lastPrintTime >= 1000
  /\ pc \in ReportPcs => now >= 1000
  /\ \A i \in 1 .. Len(emits) :
        /\ emits[i] >= 1000
        /\ i > 1 => emits[i] - emits[i - 1] >= 1000
  /\ lastPrintTime = IF emits = << >> THEN 0 ELSE emits[Len(emits)]

C7_Witness ==
  Len(emits) = 2 /\ emits[2] - emits[1] >= 1000 /\ pc = "printTitle"

(* ------------------------------------------------------------------ *)
(* C8: clearAllColumns is called once per sweep, after the sample of  *)
(* (7,8); from its return until the next sweep's first activateColumn *)
(* no column output is high.                                          *)
(* ------------------------------------------------------------------ *)
C8_ClearOncePerSweep ==
  /\ pc = "clearCall" => (nClears = 0 /\ nSamples = 72 /\ lastSample = << 7, 8 >>)
  /\ pc \in { "activate", "settle", "sample" } => nClears = 0
  /\ (pc \in DriverPcs /\ callee = "activateColumn") => nClears = 0
  /\ (pc \in DriverPcs /\ drvRet = "gate") =>
        (nClears = 1 /\ callee = "clearAllColumns" /\ drvVal = 0)
  /\ (swept /\ pc \in ({ "gate", "stamp" } \cup ReportPcs)) => nClears = 1
  /\ (SweepDone \/ (swept /\ pc = "activate" /\ nSamples = 0)) => outputs = 0

\* the Reporter is printing and the columns are off
C8_Witness ==
  pc = "printRow" /\ row = 4 /\ nClears = 1 /\ outputs = 0 /\ keys # {}

(* ------------------------------------------------------------------ *)
(* C9 as stated: between any two activateColumn calls there is a      *)
(* clearAllColumns call.                                              *)
(* ------------------------------------------------------------------ *)
C9_ClearBetweenActivations ==
  Len(calls) = 2 =>
     ~(calls[1][1] = "activateColumn" /\ calls[2][1] = "activateColumn")

(* ------------------------------------------------------------------ *)
(* C9 amended: within a sweep the activateColumn calls for columns    *)
(* c and c+1 follow each other with no clearAllColumns in between;    *)
(* across the sweep boundary exactly one clearAllColumns call lies    *)
(* between activateColumn for column 7 and activateColumn for column  *)
(* 0, and it has returned (outputs latched low) before that call      *)
(* begins.                                                            *)
(* ------------------------------------------------------------------ *)
C9_ClearOnlyAtSweepBoundary ==
  /\ (Len(calls) = 2 /\ calls[2][1] = "activateColumn") =>
        \/ /\ calls[2][2] = 1
           /\ calls[1][1] = "clearAllColumns"
        \/ /\ calls[1][1] = "activateColumn"
           /\ \E c \in 0 .. 6 : calls[1][2] = 2 ^ c /\ calls[2][2] = 2 ^ (c + 1)
  /\ (Len(calls) = 2 /\ calls[2][1] = "clearAllColumns") =>
        calls[1] = << "activateColumn", 128 >>
  /\ (pc = "latchLow" /\ callee = "activateColumn" /\ drvVal = 1) =>
        (latch = 1 /\ outputs = 0 /\ shiftReg = 0)

\* two activateColumn calls in a row, for columns 2 and 3
C9_Witness ==
  /\ calls = << << "activateColumn", 4 >>, << "activateColumn", 8 >> >>
  /\ pc = "sample" /\ col = 3

(* ------------------------------------------------------------------ *)
(* C10: the snapshot after a sweep is a function of the contact       *)
(* states at the instants they were sampled in that sweep alone:      *)
(* entry (c,r) is 1 iff contact (c,r) was closed when it was sampled. *)
(* Nothing of earlier sweeps remains.                                 *)
(* ------------------------------------------------------------------ *)
C10_SnapshotFromThisSweepOnly ==
  SweepDone =>
     \A c \in 0 .. 7 : \A r \in 0 .. 8 :
        matrix[c][r] = 1 <=> << c, r >> \in seen

\* a later sweep during which the keys changed: (3,5) was closed when
\* sampled and is open now, (7,8) was open when sampled and is closed now
C10_Witness ==
  /\ pc = "gate" /\ swept /\ ~stable /\ Len(emits) >= 1
  /\ seen = { <<3, 5>> } /\ keys = { <<7, 8>> }
  /\ matrix[3][5] = 1 /\ matrix[7][8] = 0 /\ matrix[0][0] = 0

(* ------------------------------------------------------------------ *)
(* C11: a sweep that has begun reaches the end of its clearAllColumns *)
(* with all 72 samples taken (no abort, no retry, no column skipped), *)
(* and sweeps are begun again and again without end.                  *)
(* ------------------------------------------------------------------ *)
C11_SweepRunsToCompletion ==
  /\ InSweep ~> (pc = "gate" /\ nSamples = 72 /\ nSettles = 8 /\ nClears = 1)
  /\ []<>(pc = "activate" /\ col = 0 /\ nSamples = 0)

\* in the middle of a later sweep
C11_Witness ==
  InSweep /\ pc = "shift" /\ col = 6 /\ bitIdx = 3 /\ swept /\ keys # {}

(* ------------------------------------------------------------------ *)
(* C12: when setup() has returned and until the first activateColumn  *)
(* call, all 72 entries are 0 and no column output is high.           *)
(* ------------------------------------------------------------------ *)
C12_StartupCleared ==
  /\ (~swept /\ nSamples = 0) =>
        \A c \in 0 .. 7 : \A r \in 0 .. 8 : matrix[c][r] = 0
  /\ (~swept /\ (pc = "loopTop" \/ (pc = "activate" /\ nSamples = 0))) =>
        (outputs = 0 /\ latch = 1 /\ calls = << << "clearAllColumns", 0 >> >>)

\* setup() has returned, loop() has not begun its first sweep, a key is down
C12_Witness ==
  pc = "loopTop" /\ ~swept /\ outputs = 0 /\ keys = { <<0, 0>> } /\ matrix = ZeroMatrix

(* ------------------------------------------------------------------ *)
(* C13: a report is, in order, the title line, the column header      *)
(* line, the 9 lines of rows 0..8 and the separator line; the line of *)
(* row r holds the 8 values matrix[0][r] .. matrix[7][r], each 0 or 1.*)
(* ------------------------------------------------------------------ *)
C13_ReportFormat ==
  /\ Len(out) <= 12
  /\ \A j \in 1 .. Len(out) :
        /\ j = 1 => out[j] = << "title" >>
        /\ j = 2 => out[j] = << "header", << 0, 1, 2, 3, 4, 5, 6, 7 >> >>
        /\ j \in 3 .. 11 =>
              /\ out[j][1] = "row" /\ out[j][2] = j - 3
              /\ Len(out[j][3]) = 8
              /\ \A i \in 1 .. 8 :
                    out[j][3][i] \in {0, 1} /\ out[j][3][i] = matrix[i - 1][j - 3]
        /\ j = 12 => out[j] = << "sep" >>
  /\ (pc = "loopTop" /\ out # << >>) => Len(out) = 12
  /\ pc = "printSep" => Len(out) = 11

\* a finished report that shows the keys (0,0) and (7,8)
C13_Witness ==
  /\ pc = "loopTop" /\ Len(out) = 12
  /\ out[3][3][1] = 1 /\ out[3][3][8] = 0
  /\ out[11][3][8] = 1 /\ out[11][3][1] = 0

(* ------------------------------------------------------------------ *)
(* The driver on its own: clearAllColumns and activateColumn called   *)
(* in any order, from any power-on state of the register              *)
(* ------------------------------------------------------------------ *)
DriverInit ==
  /\ pc = "idle"
  /\ col = 0 /\ row = 0
  /\ matrix = ZeroMatrix
  /\ lastPrintTime = 0
  /\ latch \in {0, 1}
  /\ shiftReg \in PowerOnBytes
  /\ outputs \in PowerOnBytes
  /\ bitIdx = 0
  /\ drvVal = 0
  /\ callee = "none"
  /\ drvRet = "none"
  /\ out = << >>
  /\ keys = {}
  /\ now = 0
  /\ stable = TRUE
  /\ seen = {}
  /\ nSamples = 0
  /\ lastSample = << >>
  /\ nClears = 0
  /\ calls = << >>
  /\ swept = FALSE
  /\ emits = << >>
  /\ age = 0
  /\ gateSaw = 0
  /\ nSettles = 0

\* clearAllColumns(), once more in succession
CallClear ==
  /\ pc = "idle"
  /\ nClears < MaxClears
  /\ nClears' = nClears + 1
  /\ Call("clearAllColumns", ClearByte, "idle")
  /\ UNCHANGED << col, row, matrix, lastPrintTime, latch, shiftReg, outputs,
                  bitIdx, out, keys, now, stable >>
  /\ UNCHANGED << seen, nSamples, lastSample, swept, emits, age, gateSaw,
                  nSettles >>

\* activateColumn(columnSignals[c]) for any column c
CallActivate ==
  /\ pc = "idle"
  /\ \E c \in Cols :
       /\ col' = c
       /\ Call("activateColumn", columnSignals(c), "idle")
  /\ nClears' = 0
  /\ UNCHANGED << row, matrix, lastPrintTime, latch, shiftReg, outputs,
                  bitIdx, out, keys, now, stable >>
  /\ UNCHANGED << seen, nSamples, lastSample, swept, emits, age, gateSaw,
                  nSettles >>

DriverNext ==
  \/ CallClear
  \/ CallActivate
  \/ LatchLow
  \/ ShiftBit
  \/ LatchHigh
  \/ KeyChange

DriverSpec == DriverInit /\ [][DriverNext]_vars

(* ------------------------------------------------------------------ *)
(* C14: after clearAllColumns has been called any number of times in  *)
(* succession the driver is in the state one call leaves: latch high, *)
(* all stages and all latched outputs low; every row then reads 0,    *)
(* with no key pressed and also with keys pressed.                    *)
(* ------------------------------------------------------------------ *)
C14_ClearIdempotent ==
  (pc = "idle" /\ nClears >= 1) =>
     /\ outputs = 0 /\ shiftReg = 0 /\ latch = 1
     /\ \A r \in 0 .. 8 : digitalRead(r) = 0

\* three clears in a row after column 7 was active, with a key of column 7 down
C14_Witness ==
  /\ pc = "idle" /\ nClears = 3 /\ col = 7
  /\ calls = << << "clearAllColumns", 0 >>, << "clearAllColumns", 0 >> >>
  /\ keys = { <<7, 8>> }
  /\ outputs = 0

(* ------------------------------------------------------------------ *)
(* C15: in both driver functions the latch is low while bits are      *)
(* clocked, 8 bits are clocked, bit 0 first and bit 7 last, and the   *)
(* latch rises only after the 8th; the latched outputs change only at *)
(* that rise, to the whole byte, never to a half-shifted pattern.     *)
(* ------------------------------------------------------------------ *)
C15_BusProtocol ==
  /\ [](pc = "shift" =>
          /\ latch = 0
          /\ bitIdx \in 0 .. 7
          /\ shiftReg \div (2 ^ (8 - bitIdx)) = drvVal % (2 ^ bitIdx))
  /\ [](pc = "latchHigh" => (latch = 0 /\ bitIdx = 8 /\ shiftReg = drvVal))
  /\ [][outputs' # outputs =>
          (pc = "latchHigh" /\ latch = 0 /\ latch' = 1 /\ outputs' = drvVal)]_vars
  /\ [][(latch = 0 /\ latch' = 1) => (pc = "latchHigh" /\ bitIdx = 8)]_vars
  /\ [][(latch = 1 /\ latch' = 0) => (pc = "latchLow" /\ pc' = "shift" /\ bitIdx' = 0)]_vars

\* half of the pattern of column 3 is in the stages while the outputs still
\* show column 2
C15_Witness ==
  /\ pc = "shift" /\ bitIdx = 4 /\ latch = 0
  /\ callee = "activateColumn" /\ drvVal = 8
  /\ outputs = 4 /\ shiftReg # outputs /\ shiftReg # drvVal

(* ------------------------------------------------------------------ *)
(* C16: for every column the order is activate, settle, sample: no    *)
(* row of column c is sampled before the activateColumn call for c    *)
(* has returned and the settle delay for c has been made, and there   *)
(* is one settle delay per column, 8 per sweep.                       *)
(* ------------------------------------------------------------------ *)
C16_ActivateSettleSample ==
  /\ (pc = "activate" \/ (pc \in DriverPcs /\ callee = "activateColumn")) =>
        (nSettles = col /\ nSamples = 9 * col)
  /\ pc = "settle" =>
        (nSettles = col /\ nSamples = 9 * col /\ outputs = 2 ^ col /\ latch = 1)
  /\ pc = "sample" =>
        (nSettles = col + 1 /\ nSamples = 9 * col + row /\ outputs = 2 ^ col)
  /\ (pc = "clearCall" \/ SweepDone) => nSettles = 8

\* column 5 of a later sweep is active and settling, none of its rows sampled
C16_Witness ==
  pc = "settle" /\ col = 5 /\ nSettles = 5 /\ nSamples = 45 /\ outputs = 32 /\ swept

(* ------------------------------------------------------------------ *)
(* C17: only the sampling step changes the matrix, and sampling (c,r) *)
(* changes no entry other than matrix[c][r]; the driver, the settle   *)
(* delay and the report leave the matrix as it is, and no step of a   *)
(* sweep changes lastPrintTime.                                       *)
(* ------------------------------------------------------------------ *)
C17_FrameOfSnapshot ==
  /\ [][matrix' # matrix => pc = "sample"]_vars
  /\ [][pc = "sample" =>
          \A c \in 0 .. 7 : \A r \in 0 .. 8 :
             (c # col \/ r # row) => matrix'[c][r] = matrix[c][r]]_vars
  /\ [][InSweep => lastPrintTime' = lastPrintTime]_vars
  /\ [][lastPrintTime' # lastPrintTime => pc = "stamp"]_vars

\* (3,5) is about to be sampled closed while (0,0) holds a 1 from this sweep
C17_Witness ==
  /\ pc = "sample" /\ col = 3 /\ row = 5
  /\ matrix[0][0] = 1 /\ matrix[3][5] = 0 /\ matrix[3][4] = 0
  /\ keys = { <<3, 5>> }

(* ------------------------------------------------------------------ *)
(* The program with a clock that wraps around.  The keys stay open.   *)
(* The clock runs on without bound, modulo the width of the counter;  *)
(* loop() evaluates the gate more often than once per wrap, so less   *)
(* than one wrap passes between a stamp and the next.                 *)
(* ------------------------------------------------------------------ *)
WrapStep == 2 ^ WrapStepBits

TickWrap ==
  /\ age + WrapStep < Modulus
  /\ now' = (now + WrapStep) % Modulus
  /\ age' = age + WrapStep
  /\ UNCHANGED progVars
  /\ UNCHANGED << keys, stable >>
  /\ UNCHANGED histVars
  /\ UNCHANGED << gateSaw, nSettles >>

WrapNext ==
  \/ ProgNext
  \/ TickWrap

WrapSpec == Init /\ [][WrapNext]_vars

FairWrapSpec == WrapSpec /\ WF_vars(ProgNext) /\ WF_vars(TickWrap)

(* ------------------------------------------------------------------ *)
(* C18: millis() - lastPrintTime, taken modulo the width of the       *)
(* counter, is the time that has really passed since the stamp, also  *)
(* when the counter has wrapped in between; so across a wrap the gate *)
(* opens only with at least 1000 passed and is shut only with less.   *)
(* ------------------------------------------------------------------ *)
C18_GateAcrossWrap ==
  /\ Elapsed(now, lastPrintTime) = age
  /\ pc = "stamp" => gateSaw >= 1000
  /\ (pc = "loopTop" /\ swept /\ out = << >>) => gateSaw < 1000

\* the gate has opened with the counter wrapped since the last stamp
C18_Witness ==
  /\ pc = "stamp" /\ now < lastPrintTime
  /\ gateSaw >= 1000 /\ Len(emits) = 2

(* ------------------------------------------------------------------ *)
(* C19: a gate check that sees at least 1000 elapsed is followed by   *)
(* one report, stamped with a clock value not earlier than the one    *)
(* checked; a gate check that sees less prints nothing and leaves     *)
(* lastPrintTime as it is; a loop iteration prints at most one        *)
(* report; and with the clock advancing, reports are stamped again    *)
(* and again without end.                                             *)
(* ------------------------------------------------------------------ *)
C19_GateSufficient ==
  /\ [][(pc = "gate" /\ pc' # "gate") =>
          IF Elapsed(now, lastPrintTime) >= 1000
            THEN pc' = "stamp"
            ELSE /\ pc' = "loopTop"
                 /\ lastPrintTime' = lastPrintTime
                 /\ out = << >> /\ out' = out]_vars
  /\ [][(pc = "stamp" /\ pc' # "stamp") =>
          /\ pc' = "printTitle"
          /\ lastPrintTime' = now
          /\ gateSaw >= 1000 /\ age >= gateSaw]_vars
  /\ []((pc = "loopTop" /\ swept) =>
          IF gateSaw >= 1000 THEN Len(out) = 12 ELSE out = << >>)
  /\ [](Len(out) <= 12)
  /\ []<>(pc = "stamp")

\* a second report has been printed in full
C19_Witness ==
  /\ pc = "loopTop" /\ Len(out) = 12 /\ Len(emits) = 2
  /\ gateSaw >= 1000 /\ lastPrintTime = emits[2]

====
